---- MODULE Spec2Model ----
(***************************************************************************)
(* Unprojection of a depth image to a point cloud:                         *)
(* open3d::t::geometry::kernel::pointcloud::UnprojectCPU / UnprojectCUDA   *)
(* (cpp/open3d/t/geometry/kernel/PointCloudImpl.h).                        *)
(*                                                                         *)
(* State: the arguments of the call, the locals of the function body, the  *)
(* shared counter, and one program counter per unit of work launched by    *)
(* LaunchGeneralKernel.  Float values are modelled as exact rationals      *)
(* <<numerator, denominator>> in lowest terms; all inputs drawn below are  *)
(* dyadic, so float arithmetic on them is exact.                           *)
(***************************************************************************)
EXTENDS Integers, Sequences, FiniteSets, TLC

VARIABLES depth, image_colors, intrinsics, extrinsics, depth_scale, depth_max,
          stride, points, colors, have_colors, rows_strided, cols_strided, n,
          count_atomic, total_pts_count, pc, upc, idx

inputs == <<depth, image_colors, intrinsics, extrinsics, depth_scale,
            depth_max, stride>>
locals == <<have_colors, rows_strided, cols_strided, n>>
vars == <<depth, image_colors, intrinsics, extrinsics, depth_scale, depth_max,
          stride, points, colors, have_colors, rows_strided, cols_strided, n,
          count_atomic, total_pts_count, pc, upc, idx>>

-----------------------------------------------------------------------------
(* Bounds of the checked input space *)

\* raw uint16 depth samples are drawn from 0..MaxRaw
MaxRaw == 2
\* strides are drawn from 1..MaxStride
MaxStride == 2
\* host threads of the statically scheduled launch
NumThreads == 2

-----------------------------------------------------------------------------
(* Exact rational arithmetic standing for float *)

RECURSIVE Gcd(_, _)
Gcd(a, b) == IF b = 0 THEN a ELSE Gcd(b, a % b)

Abs(a) == IF a < 0 THEN -a ELSE a

\* The arithmetic is defined by functions, which TLC applies to evaluated
\* arguments, so that nested expressions are evaluated once.
RatPairs == (Int \X Int) \X (Int \X Int)

Normal[q \in Int \X Int] ==
    LET g == Gcd(Abs(q[1]), Abs(q[2]))
        s == IF q[2] < 0 THEN -1 ELSE 1
    IN  <<(s * q[1]) \div g, (s * q[2]) \div g>>

Sum[q \in RatPairs] ==
    Normal[<<q[1][1] * q[2][2] + q[2][1] * q[1][2], q[1][2] * q[2][2]>>]

Difference[q \in RatPairs] ==
    Normal[<<q[1][1] * q[2][2] - q[2][1] * q[1][2], q[1][2] * q[2][2]>>]

Product[q \in RatPairs] == Normal[<<q[1][1] * q[2][1], q[1][2] * q[2][2]>>]

Quotient[q \in RatPairs] == Normal[<<q[1][1] * q[2][2], q[1][2] * q[2][1]>>]

Rat(num, den) == Normal[<<num, den>>]
RatOf(k) == <<k, 1>>
RatAdd(a, b) == Sum[<<a, b>>]
RatSub(a, b) == Difference[<<a, b>>]
RatMul(a, b) == Product[<<a, b>>]
RatDiv(a, b) == Quotient[<<a, b>>]
RatLt(a, b) == a[1] * b[2] < b[1] * a[2]
RatGt(a, b) == RatLt(b, a)

-----------------------------------------------------------------------------
(* Tensors *)

\* product of the shape
RECURSIVE NumElements(_)
NumElements(shape) ==
    IF shape = <<>> THEN 1 ELSE Head(shape) * NumElements(Tail(shape))

\* a default-constructed tensor: shape {0}, no data
EmptyTensor == [shape |-> <<0>>, data |-> <<>>]

\* a row of freshly allocated memory no unit has written
Uninit == <<>>

\* core::Tensor({rows, 3}, Float32, device): allocated, not initialised
NewTensor(rows) == [shape |-> <<rows, 3>>, data |-> [i \in 1..rows |-> Uninit]]

\* t.Slice(0, 0, stop): the first `stop` rows
Slice(t, stop) ==
    [shape |-> <<stop>> \o Tail(t.shape), data |-> SubSeq(t.data, 1, stop)]

\* the <<y, x>> coordinates of an image of height h and width w
Pixels(h, w) == (0..(h - 1)) \X (0..(w - 1))

\* NDArrayIndexer::GetShape
GetShape(t, dim) == t.shape[dim + 1]

\* NDArrayIndexer::GetDataPtrFromCoord(x, y): the element of row y, column x
GetDataPtrFromCoord(t, x, y) == t.data[<<y, x>>]

-----------------------------------------------------------------------------
(* Camera transform: TransformIndexer of GeometryIndexer.h *)

Identity4 == << <<1, 0, 0, 0>>, <<0, 1, 0, 0>>, <<0, 0, 1, 0>>, <<0, 0, 0, 1>> >>

\* core::Tensor::Inverse of a rigid transform [R | t]: [R^T | -R^T t]
Inverse(E) ==
    LET Rt(r, c) == E[c][r]
        Tinv(r) == -(Rt(r, 1) * E[1][4] + Rt(r, 2) * E[2][4] + Rt(r, 3) * E[3][4])
    IN  [r \in 1..4 |->
            IF r = 4 THEN <<0, 0, 0, 1>>
            ELSE <<Rt(r, 1), Rt(r, 2), Rt(r, 3), Tinv(r)>>]

\* TransformIndexer(intrinsics, extrinsics, scale)
TransformIndexer(K, E, scale) ==
    [fx |-> RatDiv(RatOf(K[1][1]), RatOf(scale)),
     fy |-> RatDiv(RatOf(K[2][2]), RatOf(scale)),
     cx |-> RatDiv(RatOf(K[1][3]), RatOf(scale)),
     cy |-> RatDiv(RatOf(K[2][3]), RatOf(scale)),
     extrinsic |-> E]

\* TransformIndexer::Unproject: pinhole inverse of pixel (u, v) at depth d
Unproject(t, u, v, d) ==
    <<RatDiv(RatMul(RatSub(u, t.cx), d), t.fx),
      RatDiv(RatMul(RatSub(v, t.cy), d), t.fy),
      d>>

\* TransformIndexer::RigidTransform: R p + t
RigidTransform(t, p) ==
    [r \in 1..3 |->
        RatAdd(RatAdd(RatMul(p[1], RatOf(t.extrinsic[r][1])),
                      RatMul(p[2], RatOf(t.extrinsic[r][2]))),
               RatAdd(RatMul(p[3], RatOf(t.extrinsic[r][3])),
                      RatOf(t.extrinsic[r][4])))]

-----------------------------------------------------------------------------
(* The body of UnprojectCPU *)

\* a transform built from the extrinsics as passed, not inverted
tiNotInverted == TransformIndexer(intrinsics, extrinsics, 1)

\* TransformIndexer ti(intrinsics, extrinsics.Inverse(), 1.0f)
ti == TransformIndexer(intrinsics, Inverse(extrinsics), 1)

\* a sampling grid rounded up to cover the partial last row and column
StridedExtentCeil(extent, step) == (extent + step - 1) \div step

\* a sampling grid of at least one row and one column
StridedExtentAtLeastOne(extent, step) ==
    IF extent \div step = 0 THEN 1 ELSE extent \div step

\* depth_indexer.GetShape(dim) / stride: int64 division of positive operands
StridedExtent(extent, step) == extent \div step

\* a row found by the remainder modulo the number of rows
UnitYModRows(workload_idx) == (workload_idx % rows_strided) * stride

\* int64_t y = (workload_idx / cols_strided) * stride
UnitY(workload_idx) == (workload_idx \div cols_strided) * stride

\* a column index used as the pixel coordinate, the stride left out
UnitXUnstrided(workload_idx) == workload_idx % cols_strided

\* int64_t x = (workload_idx % cols_strided) * stride
UnitX(workload_idx) == (workload_idx % cols_strided) * stride

\* float d = *depth_indexer.GetDataPtrFromCoord<uint16_t>(x, y) / depth_scale
ScaledDepth(raw, scale) == RatDiv(RatOf(raw), scale)

UnitD(workload_idx) ==
    ScaledDepth(GetDataPtrFromCoord(depth, UnitX(workload_idx), UnitY(workload_idx)),
                depth_scale)

\* a filter whose upper bound is inclusive
DepthValidInclusive(d, dmax) == RatGt(d, RatOf(0)) /\ ~RatGt(d, dmax)

\* if (d > 0 && d < depth_max)
DepthValid(d, dmax) == RatGt(d, RatOf(0)) /\ RatLt(d, dmax)

\* largest value of int, the type of the counter and of idx
INT_MAX == 2147483647

\* an increment that is not atomic and loses its update to a concurrent one
AtomicAddLost(old, delta) == old

\* OPEN3D_ATOMIC_ADD(count_ptr, 1) on std::atomic<int>: the new counter value
\* (two's complement wrap-around); the value returned is the old one
AtomicAdd(old, delta) ==
    IF old > INT_MAX - delta
    THEN (-INT_MAX - 1) + (delta - 1 - (INT_MAX - old))
    ELSE old + delta

\* an add-and-fetch: the counter after the increment
FetchedValueAfter(old, delta) == old + delta

\* the value OPEN3D_ATOMIC_ADD returns
FetchedValue(old, delta) == old

\* the row written to the claimed slot of points
UnitPoint(workload_idx) ==
    RigidTransform(ti, Unproject(ti, RatOf(UnitX(workload_idx)),
                                 RatOf(UnitY(workload_idx)), UnitD(workload_idx)))

\* the row written to the claimed slot of colors
UnitColor(workload_idx) ==
    GetDataPtrFromCoord(image_colors, UnitX(workload_idx), UnitY(workload_idx))

\* a local idx not yet assigned
NoIdx == -1

\* an allocation of one row per row of the sampling grid
CapacityRowsOnly(rows, cols) == rows

\* the row count of the outputs: rows_strided * cols_strided
Capacity(rows, cols) == rows * cols

\* lines 59-87: indexers, output allocation, counter
Setup ==
    /\ pc = "entry"
    /\ have_colors' = (NumElements(image_colors.shape) # 0)
    /\ rows_strided' = StridedExtent(GetShape(depth, 0), stride)
    /\ cols_strided' = StridedExtent(GetShape(depth, 1), stride)
    /\ points' = NewTensor(Capacity(rows_strided', cols_strided'))
    /\ colors' = IF have_colors'
                  THEN NewTensor(Capacity(rows_strided', cols_strided'))
                  ELSE colors
    /\ count_atomic' = 0
    /\ n' = rows_strided' * cols_strided'
    /\ upc' = [i \in 0..(n' - 1) |-> "pending"]
    /\ idx' = [i \in 0..(n' - 1) |-> NoIdx]
    /\ pc' = "kernel"
    /\ UNCHANGED <<inputs, total_pts_count>>

\* a unit that takes a slot before it tests its depth, and returns on failure
RejectAfterIncrement(i) ==
    /\ pc = "kernel"
    /\ upc[i] = "pending"
    /\ ~DepthValid(UnitD(i), depth_max)
    /\ count_atomic' = AtomicAdd(count_atomic, 1)
    /\ upc' = [upc EXCEPT ![i] = "done"]
    /\ UNCHANGED <<inputs, locals, points, colors, total_pts_count, pc, idx>>

\* lines 95-100, filter fails: the unit returns
Reject(i) ==
    /\ pc = "kernel"
    /\ upc[i] = "pending"
    /\ ~DepthValid(UnitD(i), depth_max)
    /\ upc' = [upc EXCEPT ![i] = "done"]
    /\ UNCHANGED <<inputs, locals, points, colors, count_atomic,
                   total_pts_count, pc, idx>>

\* a claim that waits until every unit earlier in scan order has passed its
\* filter, to hand out the slots in scan order
ClaimInScanOrder(i) ==
    /\ pc = "kernel"
    /\ upc[i] = "pending"
    /\ \A j \in DOMAIN upc : j < i => upc[j] # "pending"
    /\ DepthValid(UnitD(i), depth_max)
    /\ idx' = [idx EXCEPT ![i] = FetchedValue(count_atomic, 1)]
    /\ count_atomic' = AtomicAdd(count_atomic, 1)
    /\ upc' = [upc EXCEPT ![i] = "point"]
    /\ UNCHANGED <<inputs, locals, points, colors, total_pts_count, pc>>

\* a claim whose slot is the unit's rank among the accepted pixels of the
\* scan, not the value of the counter
ClaimAtScanRank(i) ==
    /\ pc = "kernel"
    /\ upc[i] = "pending"
    /\ DepthValid(UnitD(i), depth_max)
    /\ idx' = [idx EXCEPT ![i] =
                  Cardinality({ j \in DOMAIN upc :
                                  j < i /\ DepthValid(UnitD(j), depth_max) })]
    /\ count_atomic' = AtomicAdd(count_atomic, 1)
    /\ upc' = [upc EXCEPT ![i] = "point"]
    /\ UNCHANGED <<inputs, locals, points, colors, total_pts_count, pc>>

\* lines 95-101, filter passes: int idx = OPEN3D_ATOMIC_ADD(count_ptr, 1)
Claim(i) ==
    /\ pc = "kernel"
    /\ upc[i] = "pending"
    /\ DepthValid(UnitD(i), depth_max)
    /\ idx' = [idx EXCEPT ![i] = FetchedValue(count_atomic, 1)]
    /\ count_atomic' = AtomicAdd(count_atomic, 1)
    /\ upc' = [upc EXCEPT ![i] = "point"]
    /\ UNCHANGED <<inputs, locals, points, colors, total_pts_count, pc>>

\* a point write addressed by re-reading the counter instead of the slot
\* the unit claimed
WritePointAtCounter(i) ==
    /\ pc = "kernel"
    /\ upc[i] = "point"
    /\ points' = [points EXCEPT !.data[count_atomic] = UnitPoint(i)]
    /\ upc' = [upc EXCEPT ![i] = IF have_colors THEN "color" ELSE "done"]
    /\ UNCHANGED <<inputs, locals, colors, count_atomic, total_pts_count, pc,
                   idx>>

\* a point write followed by the color copy whether or not there are colors
WritePointThenColor(i) ==
    /\ pc = "kernel"
    /\ upc[i] = "point"
    /\ points' = [points EXCEPT !.data[idx[i] + 1] = UnitPoint(i)]
    /\ upc' = [upc EXCEPT ![i] = "color"]
    /\ UNCHANGED <<inputs, locals, colors, count_atomic, total_pts_count, pc,
                   idx>>

\* lines 103-110: unproject, rigid transform into the claimed point row
WritePoint(i) ==
    /\ pc = "kernel"
    /\ upc[i] = "point"
    /\ points' = [points EXCEPT !.data[idx[i] + 1] = UnitPoint(i)]
    /\ upc' = [upc EXCEPT ![i] = IF have_colors THEN "color" ELSE "done"]
    /\ UNCHANGED <<inputs, locals, colors, count_atomic, total_pts_count, pc,
                   idx>>

\* a color copy addressed by the workload index instead of the claimed slot
WriteColorAtWorkload(i) ==
    /\ pc = "kernel"
    /\ upc[i] = "color"
    /\ colors' = [colors EXCEPT !.data[i + 1] = UnitColor(i)]
    /\ upc' = [upc EXCEPT ![i] = "done"]
    /\ UNCHANGED <<inputs, locals, points, count_atomic, total_pts_count, pc,
                   idx>>

\* a color copy in the wrong direction: the output row is stored into the
\* pixel of the color image
WriteColorIntoImage(i) ==
    /\ pc = "kernel"
    /\ upc[i] = "color"
    /\ image_colors' = [image_colors EXCEPT !.data[<<UnitY(i), UnitX(i)>>]
                                                = colors.data[idx[i] + 1]]
    /\ upc' = [upc EXCEPT ![i] = "done"]
    /\ UNCHANGED <<depth, intrinsics, extrinsics, depth_scale, depth_max,
                   stride, locals, points, colors, count_atomic,
                   total_pts_count, pc, idx>>

\* lines 111-120: copy the three channels into the claimed color row
WriteColor(i) ==
    /\ pc = "kernel"
    /\ upc[i] = "color"
    /\ colors' = [colors EXCEPT !.data[idx[i] + 1] = UnitColor(i)]
    /\ upc' = [upc EXCEPT ![i] = "done"]
    /\ UNCHANGED <<inputs, locals, points, count_atomic, total_pts_count, pc,
                   idx>>

\* LaunchGeneralKernel returns once every unit has finished
AllUnitsDone == \A i \in DOMAIN upc : upc[i] = "done"

\* a read of the counter that does not wait for the launch to return
FinalizeWithoutBarrier ==
    /\ pc = "kernel"
    /\ total_pts_count' = count_atomic
    /\ points' = Slice(points, count_atomic)
    /\ colors' = IF have_colors THEN Slice(colors, count_atomic) ELSE colors
    /\ pc' = "done"
    /\ UNCHANGED <<inputs, locals, count_atomic, upc, idx>>

\* lines 123-131: read the counter, truncate the outputs
Finalize ==
    /\ pc = "kernel"
    /\ AllUnitsDone
    /\ total_pts_count' = count_atomic
    /\ points' = Slice(points, count_atomic)
    /\ colors' = IF have_colors THEN Slice(colors, count_atomic) ELSE colors
    /\ pc' = "done"
    /\ UNCHANGED <<inputs, locals, count_atomic, upc, idx>>

-----------------------------------------------------------------------------
(* The calls checked *)

\* pinhole cameras: the identity camera, and one with a shifted principal
\* point, unequal focal lengths and a pose turned a quarter about z
IdentityCamera ==
    [K |-> << <<1, 0, 0>>, <<0, 1, 0>>, <<0, 0, 1>> >>, E |-> Identity4]

TurnedCamera ==
    [K |-> << <<2, 0, 1>>, <<0, 1, 0>>, <<0, 0, 1>> >>,
     E |-> << <<0, -1, 0, 1>>, <<1, 0, 0, 0>>, <<0, 0, 1, 2>>, <<0, 0, 0, 1>> >>]

Cameras == {IdentityCamera, TurnedCamera}

\* <<depth_scale, depth_max>>: under the first a raw 1 is accepted and a raw 2
\* lies above depth_max; under the second a raw 1 scales to 1/2 and a raw 2
\* to depth_max itself
UnitScaleFilter == <<RatOf(1), Rat(3, 2)>>
HalvingFilter == <<RatOf(2), RatOf(1)>>
Filters == {UnitScaleFilter, HalvingFilter}

\* image height, width and stride of a call: every small image under every
\* stride, and a 3x3 image whose last row and column a stride >= 2 crops
Grids ==
    { [h |-> d[1], w |-> d[2], s |-> s] :
        d \in {<<1, 1>>, <<1, 2>>, <<2, 1>>, <<2, 2>>}, s \in 1..MaxStride }
    \cup { [h |-> 3, w |-> 3, s |-> s] : s \in 2..MaxStride }

\* larger images sampled with stride 2: an even fit and a cropped last row
StrideGrids == { [h |-> 4, w |-> 4, s |-> 2], [h |-> 5, w |-> 4, s |-> 2] }

\* the pixels of the strided sampling grid, as <<y, x>>
Sampled(h, w, s) ==
    { <<r * s, c * s>> : r \in 0..((h \div s) - 1), c \in 0..((w \div s) - 1) }

\* depth images: every assignment of raw samples to the sampled pixels; the
\* pixels outside the sampling grid hold a sample every filter drawn accepts
DepthImages(g) ==
    { [shape |-> <<g.h, g.w>>,
       data  |-> [p \in Pixels(g.h, g.w) |->
                    IF p \in Sampled(g.h, g.w, g.s) THEN f[p] ELSE 1]] :
        f \in [Sampled(g.h, g.w, g.s) -> 0..MaxRaw] }

\* a color image whose channels encode the pixel: <<x, y, x + y>>
ColorImage(h, w) ==
    [shape |-> <<h, w, 3>>,
     data  |-> [p \in Pixels(h, w) |-> <<p[2], p[1], p[1] + p[2]>>]]

\* a colors argument still holding the result of an earlier call
StaleColors == [shape |-> <<1, 3>>, data |-> << <<9, 9, 9>> >>]

TypeOfEntry ==
    /\ have_colors = FALSE
    /\ rows_strided = 0
    /\ cols_strided = 0
    /\ n = 0
    /\ count_atomic = 0
    /\ total_pts_count = 0
    /\ upc = <<>>
    /\ idx = <<>>
    /\ points = EmptyTensor
    /\ pc = "entry"

InitOver(grids, cameras, filters, entries) ==
    /\ \E g \in grids :
          /\ stride = g.s
          /\ depth \in DepthImages(g)
          /\ image_colors \in {EmptyTensor, ColorImage(g.h, g.w)}
    /\ \E cam \in cameras :
          /\ intrinsics = cam.K
          /\ extrinsics = cam.E
    /\ \E f \in filters :
          /\ depth_scale = f[1]
          /\ depth_max = f[2]
    /\ colors \in entries
    /\ TypeOfEntry

Init == InitOver(Grids, Cameras, Filters, {EmptyTensor, StaleColors})

InitStride == InitOver(StrideGrids, Cameras, Filters, {EmptyTensor, StaleColors})

\* the calls of Init with the turned camera, the halving filter and an empty
\* colors argument: no guard reads the camera or the colors argument, and
\* both filters accept the same raw samples
InitFair == InitOver(Grids, {TurnedCamera}, {HalvingFilter}, {EmptyTensor})

Next ==
    \/ Setup
    \/ \E i \in DOMAIN upc : Reject(i)
    \/ \E i \in DOMAIN upc : Claim(i)
    \/ \E i \in DOMAIN upc : WritePoint(i)
    \/ \E i \in DOMAIN upc : WriteColor(i)
    \/ Finalize

Spec == Init /\ [][Next]_vars

\* CPULauncher::LaunchGeneralKernel on NumThreads host threads, the units
\* divided statically: thread t runs the units of chunk t in increasing order
ChunkOf(i) == i \div ((n + NumThreads - 1) \div NumThreads)

Turn(i) ==
    \A j \in DOMAIN upc : (ChunkOf(j) = ChunkOf(i) /\ j < i) => upc[j] = "done"

NextStatic ==
    \/ Setup
    \/ \E i \in DOMAIN upc : Turn(i) /\ Reject(i)
    \/ \E i \in DOMAIN upc : Turn(i) /\ Claim(i)
    \/ \E i \in DOMAIN upc : WritePoint(i)
    \/ \E i \in DOMAIN upc : WriteColor(i)
    \/ Finalize

\* calls on a 5x4 image with stride 1 in which a single pixel, a corner or an
\* inner one, holds a nonzero raw depth, below a depth_max of 3 under either
\* depth_scale
InitSinglePixel ==
    /\ stride = 1
    /\ \E p \in {<<0, 0>>, <<0, 3>>, <<4, 0>>, <<4, 3>>, <<2, 1>>}, raw \in 1..MaxRaw :
          depth = [shape |-> <<5, 4>>,
                   data  |-> [q \in Pixels(5, 4) |-> IF q = p THEN raw ELSE 0]]
    /\ image_colors \in {EmptyTensor, ColorImage(5, 4)}
    /\ \E cam \in Cameras :
          /\ intrinsics = cam.K
          /\ extrinsics = cam.E
    /\ depth_scale \in {RatOf(1), RatOf(2)}
    /\ depth_max = RatOf(3)
    /\ colors = EmptyTensor
    /\ TypeOfEntry

SpecStatic == InitSinglePixel /\ [][NextStatic]_vars

SpecStride == InitStride /\ [][Next]_vars

\* some step is eventually taken while one is possible: the launcher keeps
\* running units, and the caller's thread continues after the launch returns
FairSpec == InitFair /\ [][Next]_vars /\ WF_vars(Next)

\* depth images with a dimension of zero
ZeroGrids ==
    { [h |-> 0, w |-> 2, s |-> 1], [h |-> 2, w |-> 0, s |-> 1],
      [h |-> 0, w |-> 0, s |-> 2] }

\* all families of calls
InitAll ==
    InitOver(Grids \cup StrideGrids \cup ZeroGrids, Cameras, Filters,
             {EmptyTensor, StaleColors})

SpecAll == InitAll /\ [][Next]_vars

-----------------------------------------------------------------------------
(* Vocabulary of the properties, stated on the inputs alone *)

Height == depth.shape[1]
Width == depth.shape[2]

\* the pixels <<x, y>> = <<c * stride, r * stride>> of the sampling grid
GridPixels ==
    { <<c * stride, r * stride>> :
        c \in 0..((Width \div stride) - 1), r \in 0..((Height \div stride) - 1) }

AllPixels == { <<p[2], p[1]>> : p \in Pixels(Height, Width) }

RawAt(p) == depth.data[<<p[2], p[1]>>]

\* 0 < raw / depth_scale < depth_max, cross-multiplied
PassesFilter(p) ==
    /\ RawAt(p) > 0
    /\ RawAt(p) * depth_scale[2] * depth_max[2] < depth_max[1] * depth_scale[1]

Accepted == { p \in GridPixels : PassesFilter(p) }

\* row is a point whose image under the extrinsics is the pinhole
\* back-projection of pixel p at its scaled depth:
\* ((x - cx) d / fx, (y - cy) d / fy, d) with d = raw / depth_scale
IsPointOf(row, p) ==
    /\ Len(row) = 3
    /\ LET d == Rat(RawAt(p) * depth_scale[2], depth_scale[1])
           cam == << Rat((p[1] - intrinsics[1][3]) * d[1], intrinsics[1][1] * d[2]),
                     Rat((p[2] - intrinsics[2][3]) * d[1], intrinsics[2][2] * d[2]),
                     d >>
           back(r) ==
               LET e == extrinsics[r]
               IN  Rat(e[1] * row[1][1] * row[2][2] * row[3][2]
                       + e[2] * row[2][1] * row[1][2] * row[3][2]
                       + e[3] * row[3][1] * row[1][2] * row[2][2]
                       + e[4] * row[1][2] * row[2][2] * row[3][2],
                       row[1][2] * row[2][2] * row[3][2])
       IN  \A r \in 1..3 : back(r) = cam[r]

\* the rows of the returned points that are the point of pixel p
RowsOf(p) == { k \in 1..Len(points.data) : IsPointOf(points.data[k], p) }

Returned == pc = "done"

\* some pair of accepted units claimed slots against the scan order
OutOfScanOrder ==
    \E i, j \in DOMAIN idx : i < j /\ idx[j] # NoIdx /\ idx[i] > idx[j]

-----------------------------------------------------------------------------
\* C1: on return the point array holds exactly one row for every sampled
\* pixel that passes the filter, and no row that is the point of any other
\* pixel (rejected or outside the sampling grid), whatever the interleaving.
ExactlyAcceptedPoints ==
    Returned =>
        /\ points.shape = <<Len(points.data), 3>>
        /\ \A p \in Accepted : Cardinality(RowsOf(p)) = 1
        /\ \A p \in AllPixels \ Accepted : RowsOf(p) = {}
        /\ \A k \in 1..Len(points.data) :
              \E p \in Accepted : IsPointOf(points.data[k], p)

\* a return with two accepted pixels stored against the scan order, a rejected
\* sampled pixel and a valid pixel outside the sampling grid
ExactlyAcceptedPointsWitness ==
    /\ Returned
    /\ Cardinality(Accepted) >= 2
    /\ Len(points.data) = Cardinality(Accepted)
    /\ GridPixels \ Accepted # {}
    /\ \E p \in AllPixels \ GridPixels : PassesFilter(p)
    /\ OutOfScanOrder

\* C2: a sampled pixel of raw depth 0, or of scaled depth >= depth_max, never
\* claims a slot and has no row in the result; a sampled pixel of scaled depth
\* strictly between 0 and depth_max claims a slot and has exactly one row.
FilterExactness ==
    /\ \A i \in DOMAIN upc :
          upc[i] # "pending" =>
              LET raw == RawAt(<<UnitX(i), UnitY(i)>>)
                  below == raw * depth_scale[2] * depth_max[2]
                               < depth_max[1] * depth_scale[1]
              IN  /\ (raw = 0 \/ ~below) => idx[i] = NoIdx
                  /\ (raw > 0 /\ below) => idx[i] # NoIdx
    /\ Returned =>
          \A p \in GridPixels :
              LET scaled == Rat(RawAt(p) * depth_scale[2], depth_scale[1])
              IN  /\ (RawAt(p) = 0 \/ ~RatLt(scaled, depth_max)) => RowsOf(p) = {}
                  /\ (RatLt(RatOf(0), scaled) /\ RatLt(scaled, depth_max))
                        => Cardinality(RowsOf(p)) = 1

\* a return whose sampled pixels include a raw 0, a scaled depth equal to
\* depth_max through a real division, and an accepted fractional depth
FilterExactnessWitness ==
    /\ Returned
    /\ \E p \in GridPixels : RawAt(p) = 0
    /\ \E p \in GridPixels :
          /\ depth_scale # RatOf(1)
          /\ Rat(RawAt(p) * depth_scale[2], depth_scale[1]) = depth_max
          /\ RowsOf(p) = {}
    /\ \E p \in GridPixels :
          /\ Rat(RawAt(p) * depth_scale[2], depth_scale[1])[2] # 1
          /\ Cardinality(RowsOf(p)) = 1

\* C3: from the launch on, n = floor(H/stride) * floor(W/stride) is the row
\* count allocated for the outputs, 0 <= counter <= n, every claimed slot lies
\* in [0, n), and the returned point array has between 0 and n rows.
CountBound ==
    /\ pc # "entry" =>
          /\ n = (Height \div stride) * (Width \div stride)
          /\ 0 <= count_atomic /\ count_atomic <= n
    /\ pc = "kernel" =>
          /\ Len(points.data) = n
          /\ have_colors => Len(colors.data) = n
          /\ \A i \in DOMAIN idx :
                idx[i] # NoIdx => 0 <= idx[i] /\ idx[i] < Len(points.data)
    /\ Returned =>
          /\ 0 <= Len(points.data)
          /\ Len(points.data) <= (Height \div stride) * (Width \div stride)

\* the bound is met: every unit of a grid of four has claimed a slot
CountBoundWitness ==
    /\ pc = "kernel"
    /\ n = 4
    /\ count_atomic = n
    /\ \E i \in DOMAIN idx : idx[i] = n - 1

\* C4: with a color image, a finished unit's point row and color row at its
\* claimed slot hold the point and the color of its pixel, and on return row
\* k of the colors is the color-image pixel whose depth produced row k of
\* the points.
ColorAlignment ==
    NumElements(image_colors.shape) # 0 =>
        /\ pc = "kernel" =>
              \A i \in DOMAIN upc :
                  (upc[i] = "done" /\ idx[i] # NoIdx) =>
                      /\ IsPointOf(points.data[idx[i] + 1], <<UnitX(i), UnitY(i)>>)
                      /\ colors.data[idx[i] + 1]
                            = image_colors.data[<<UnitY(i), UnitX(i)>>]
        /\ Returned =>
              /\ Len(colors.data) = Len(points.data)
              /\ colors.shape = <<Len(points.data), 3>>
              /\ \A k \in 1..Len(points.data) :
                    \E p \in GridPixels :
                        /\ IsPointOf(points.data[k], p)
                        /\ colors.data[k] = image_colors.data[<<p[2], p[1]>>]

\* a return with colors where a rejected pixel precedes accepted ones and
\* two accepted pixels are stored against the scan order
ColorAlignmentWitness ==
    /\ Returned
    /\ have_colors
    /\ Len(colors.data) >= 2
    /\ OutOfScanOrder
    /\ \E i \in DOMAIN idx : idx[i] = NoIdx

-----------------------------------------------------------------------------
(* Reference execution: the units run one after another in scan order *)

\* the <<point, color>> rows units 0 .. k-1 produce when run in scan order
RECURSIVE ScanRows(_)
ScanRows(k) ==
    IF k = 0 THEN <<>>
    ELSE LET i == k - 1
         IN  IF DepthValid(UnitD(i), depth_max)
             THEN Append(ScanRows(k - 1),
                         <<UnitPoint(i), IF have_colors THEN UnitColor(i) ELSE <<>> >>)
             ELSE ScanRows(k - 1)

\* the <<point, color>> rows of the returned arrays
ReturnedRows ==
    [k \in 1..Len(points.data) |->
        <<points.data[k], IF have_colors THEN colors.data[k] ELSE <<>> >>]

Occurrences(rows, r) == Cardinality({ k \in DOMAIN rows : rows[k] = r })

IsPermutation(a, b) ==
    /\ Len(a) = Len(b)
    /\ \A k \in DOMAIN a : Occurrences(a, a[k]) = Occurrences(b, a[k])

\* C5: whatever the interleaving, the returned count and the multiset of
\* paired point/color rows are those of the scan-order execution on the same
\* inputs, so any two executions return permutations of one another.
ValuesDeterministic ==
    Returned =>
        /\ total_pts_count = Len(ScanRows(n))
        /\ IsPermutation(ReturnedRows, ScanRows(n))

\* a return with colors whose rows are those of the scan-order execution in
\* another order
ValuesDeterministicWitness ==
    /\ Returned
    /\ have_colors
    /\ Len(points.data) >= 3
    /\ OutOfScanOrder
    /\ ReturnedRows # ScanRows(n)

\* all pixels of the image pass the filter
AllValid == \A p \in AllPixels : PassesFilter(p)

\* the pixels <<x, y>> the units read
UnitPixels == { <<UnitX(i), UnitY(i)>> : i \in DOMAIN upc }

\* C6: the units sample exactly the pixels (c*stride, r*stride), c below
\* floor(W/stride), r below floor(H/stride), one unit each; stride 2 on a 4x4
\* all-valid image samples (0,0), (2,0), (0,2), (2,2) and returns 4 points.
StrideSampling ==
    /\ pc # "entry" =>
          /\ UnitPixels = GridPixels
          /\ Cardinality(DOMAIN upc) = Cardinality(GridPixels)
    /\ (pc # "entry" /\ Height = 4 /\ Width = 4 /\ stride = 2 /\ AllValid) =>
          /\ UnitPixels = { <<0, 0>>, <<2, 0>>, <<0, 2>>, <<2, 2>> }
          /\ Returned =>
                /\ Len(points.data) = 4
                /\ \A p \in UnitPixels : Cardinality(RowsOf(p)) = 1

\* the return of the 4x4 all-valid call with stride 2
StrideSamplingWitness ==
    /\ Returned
    /\ Height = 4 /\ Width = 4 /\ stride = 2
    /\ AllValid
    /\ Len(points.data) = 4

\* C7: the grid is rows = floor(H/stride) by cols = floor(W/stride); every
\* unit reads inside the window x < cols*stride, y < rows*stride, and no
\* pixel outside the window has a row in the result, valid or not.
FloorCropping ==
    pc # "entry" =>
        /\ rows_strided * stride <= Height /\ Height < (rows_strided + 1) * stride
        /\ cols_strided * stride <= Width /\ Width < (cols_strided + 1) * stride
        /\ \A p \in UnitPixels :
              p[1] < cols_strided * stride /\ p[2] < rows_strided * stride
        /\ Returned =>
              \A p \in AllPixels :
                  (p[1] >= cols_strided * stride \/ p[2] >= rows_strided * stride)
                      => RowsOf(p) = {}

\* the return of a 5-row call with stride 2 whose pixel (0, 4), valid and on
\* a multiple of the stride, is not in the result, the four sampled ones are
FloorCroppingWitness ==
    /\ Returned
    /\ Height = 5 /\ stride = 2
    /\ PassesFilter(<<0, 4>>)
    /\ RowsOf(<<0, 4>>) = {}
    /\ Len(points.data) = 4

\* C8: on return the colors output is an N x 3 array iff a color image was
\* passed, and holds no element when none was passed, whatever it held on
\* entry.
NoColorOutputEmpty ==
    Returned =>
        /\ NumElements(image_colors.shape) = 0 => NumElements(colors.shape) = 0
        /\ colors.shape = <<Len(points.data), 3>>
              <=> NumElements(image_colors.shape) # 0

\* the next step of unit i
UnitStep(i) == Reject(i) \/ Claim(i) \/ WritePoint(i) \/ WriteColor(i)

\* position of a unit in its body
Rank(u) == CASE u = "pending" -> 0 [] u = "point" -> 1 [] u = "color" -> 2
             [] u = "done" -> 3

\* C9: a unit that has not finished can always take its next step, whatever
\* the other units have done; units only move forward through their body, one
\* per step, and stay finished; and under fair scheduling every call reaches
\* its return with every unit finished.
Termination ==
    /\ [](pc = "kernel" =>
            \A i \in DOMAIN upc : upc[i] # "done" => ENABLED UnitStep(i))
    /\ [][\A i \in DOMAIN upc :
            /\ Rank(upc'[i]) >= Rank(upc[i])
            /\ upc'[i] # upc[i] =>
                  \A j \in DOMAIN upc \ {i} : upc'[j] = upc[j]]_vars
    /\ <>(Returned /\ AllUnitsDone /\ Len(points.data) = total_pts_count)

\* a launch of four units of which one has claimed its slot and not written
\* it, while a unit before it and a unit after it are still pending
TerminationWitness ==
    /\ pc = "kernel"
    /\ n = 4
    /\ upc[1] = "point"
    /\ upc[0] = "pending" /\ upc[2] = "pending"
    /\ ENABLED UnitStep(0) /\ ENABLED UnitStep(2)

\* the call of the identity scenario: fx = fy = 1, cx = cy = 0, identity
\* extrinsics, depth_scale 1, raw depth 2 at pixel (3, 4) and 0 elsewhere
IdentityScenario ==
    /\ intrinsics = << <<1, 0, 0>>, <<0, 1, 0>>, <<0, 0, 1>> >>
    /\ extrinsics = Identity4
    /\ depth_scale = RatOf(1)
    /\ \A p \in AllPixels : RawAt(p) = IF p = <<3, 4>> THEN 2 ELSE 0

\* C10: the row a unit writes for its accepted pixel (x, y) of scaled depth d
\* is the point the extrinsics map to ((x - cx) d / fx, (y - cy) d / fy, d),
\* so is every returned row for some accepted pixel, and the identity
\* scenario returns the single point (6, 8, 2).
PinholePoint ==
    /\ pc = "kernel" =>
          \A i \in DOMAIN upc :
              (upc[i] \in {"color", "done"} /\ idx[i] # NoIdx) =>
                  IsPointOf(points.data[idx[i] + 1], <<UnitX(i), UnitY(i)>>)
    /\ Returned =>
          \A k \in 1..Len(points.data) :
              \E p \in Accepted : IsPointOf(points.data[k], p)
    /\ (Returned /\ IdentityScenario) =>
          points.data = << <<RatOf(6), RatOf(8), RatOf(2)>> >>

\* the return of the identity scenario with its one point
PinholePointWitness ==
    /\ Returned
    /\ IdentityScenario
    /\ Len(points.data) = 1
    /\ points.data[1] = <<RatOf(6), RatOf(8), RatOf(2)>>

-----------------------------------------------------------------------------
(* Slots and writes during the parallel stage *)

\* the units that have claimed a slot
Claimed == { i \in DOMAIN idx : idx[i] # NoIdx }

\* row k of an output buffer has been written
Written(t, k) == t.data[k] # Uninit

\* the rows of an output buffer a step changes
RowsChanged(old, new) ==
    { k \in 1..Len(old.data) : k > Len(new.data) \/ new.data[k] # old.data[k] }

\* a step of the parallel stage
KernelStep == pc = "kernel" /\ pc' = "kernel"

\* C11: no two units ever hold the same slot, each claim returns the counter
\* value before its increment, and a step of the parallel stage writes at most
\* one row of one output, a row not written before, which is the slot the
\* writing unit claimed earlier.
SlotUniqueness ==
    /\ [](\A i, j \in Claimed : i # j => idx[i] # idx[j])
    /\ [][\A i \in DOMAIN idx :
            idx'[i] # idx[i] =>
                /\ idx[i] = NoIdx
                /\ idx'[i] = count_atomic
                /\ \A j \in Claimed : idx[j] # idx'[i]]_vars
    /\ [][KernelStep =>
            /\ Cardinality(RowsChanged(points, points')) <= 1
            /\ \A k \in RowsChanged(points, points') :
                  /\ ~Written(points, k)
                  /\ colors' = colors
                  /\ \E i \in Claimed :
                        /\ idx[i] = k - 1
                        /\ upc[i] = "point" /\ upc'[i] # "point"
                        /\ \A j \in Claimed \ {i} : idx[j] # k - 1]_vars
    /\ [][(KernelStep /\ have_colors) =>
            /\ Cardinality(RowsChanged(colors, colors')) <= 1
            /\ \A k \in RowsChanged(colors, colors') :
                  /\ ~Written(colors, k)
                  /\ points' = points
                  /\ \E i \in Claimed :
                        /\ idx[i] = k - 1
                        /\ upc[i] = "color" /\ upc'[i] = "done"
                        /\ \A j \in Claimed \ {i} : idx[j] # k - 1]_vars

\* two units hold slots at once, claimed against the scan order: the later
\* one has written its point row and waits to write its color row, the
\* earlier one has written nothing yet
SlotUniquenessWitness ==
    /\ pc = "kernel"
    /\ have_colors
    /\ \E i, j \in Claimed :
          /\ i < j /\ idx[i] > idx[j]
          /\ upc[i] = "point" /\ ~Written(points, idx[i] + 1)
          /\ upc[j] = "color" /\ Written(points, idx[j] + 1)
          /\ ~Written(colors, idx[j] + 1)

\* the slots claimed so far
ClaimedSlots == { idx[i] : i \in Claimed }

\* slot s of the outputs holds its point and, with colors, its color
SlotComplete(s) ==
    Written(points, s + 1) /\ (have_colors => Written(colors, s + 1))

\* neither output holds anything in slot s
SlotUntouched(s) ==
    ~Written(points, s + 1) /\ (have_colors => ~Written(colors, s + 1))

\* C12: the counter is read only in the step that follows the completion of
\* all n units; the value read is the number of accepted sampled pixels, the
\* slots claimed are exactly 0 .. total-1, each of them completely written,
\* and no slot at or above the counter is ever written; the truncated outputs
\* have total rows, all written.
DensePacking ==
    /\ [][pc' # pc /\ pc = "kernel" =>
            /\ AllUnitsDone
            /\ total_pts_count' = count_atomic
            /\ count_atomic' = count_atomic
            /\ points'.data = SubSeq(points.data, 1, total_pts_count')
            /\ have_colors =>
                  colors'.data = SubSeq(colors.data, 1, total_pts_count')]_vars
    /\ [](pc = "kernel" =>
            \A s \in 0..(n - 1) : s >= count_atomic => SlotUntouched(s))
    /\ []((pc = "kernel" /\ AllUnitsDone) =>
            /\ count_atomic = Cardinality(Accepted)
            /\ ClaimedSlots = 0..(count_atomic - 1)
            /\ \A s \in 0..(n - 1) : s < count_atomic => SlotComplete(s))
    /\ [](Returned =>
            /\ total_pts_count = Cardinality(Accepted)
            /\ Len(points.data) = total_pts_count
            /\ have_colors => Len(colors.data) = total_pts_count
            /\ \A s \in 0..(total_pts_count - 1) : SlotComplete(s))

\* the barrier of a launch with colors: every unit has finished, some were
\* rejected, and the accepted ones took their slots against the scan order
DensePackingWitness ==
    /\ pc = "kernel"
    /\ AllUnitsDone
    /\ have_colors
    /\ count_atomic >= 2 /\ count_atomic < n
    /\ OutOfScanOrder
    /\ \A s \in 0..(n - 1) :
          IF s < count_atomic THEN SlotComplete(s) ELSE SlotUntouched(s)

\* the counter ahead of the writes: a slot below the counter is still
\* unwritten while a higher slot is already complete
CounterAheadOfWrites ==
    /\ pc = "kernel"
    /\ \E s, t \in 0..(n - 1) :
          /\ s < t /\ t < count_atomic
          /\ SlotUntouched(s)
          /\ SlotComplete(t)

\* the units whose sampled depth fails the filter
RejectedUnits == { i \in DOMAIN upc : ~DepthValid(UnitD(i), depth_max) }

\* C13: the step of a unit whose depth fails the filter changes neither the
\* counter nor the outputs and claims no slot; the counter is 0 when the
\* launch starts, changes only by +1 in the step in which one accepted unit
\* passes its filter, and so counts the accepted units past their filter: once
\* each.
RejectedNoEffect ==
    /\ [][\A i \in DOMAIN upc :
            (KernelStep /\ i \in RejectedUnits /\ upc'[i] # upc[i]) =>
                /\ upc'[i] = "done"
                /\ idx' = idx
                /\ count_atomic' = count_atomic
                /\ points' = points
                /\ colors' = colors]_vars
    /\ [][count_atomic' # count_atomic =>
            \/ pc = "entry" /\ count_atomic' = 0
            \/ /\ KernelStep
               /\ count_atomic' = count_atomic + 1
               /\ \E i \in DOMAIN upc \ RejectedUnits :
                     /\ upc[i] = "pending" /\ upc'[i] = "point"
                     /\ \A j \in DOMAIN upc \ {i} : upc'[j] = upc[j]]_vars
    /\ [](pc = "kernel" =>
            /\ (\A i \in DOMAIN upc : upc[i] = "pending") => count_atomic = 0
            /\ count_atomic
                  = Cardinality({ i \in DOMAIN upc \ RejectedUnits :
                                      upc[i] # "pending" })
            /\ \A i \in RejectedUnits : idx[i] = NoIdx)
    /\ [](Returned => count_atomic = Cardinality(DOMAIN upc \ RejectedUnits))

\* a rejected unit has finished after an accepted one wrote its rows, while
\* another accepted unit has not started: the counter and the outputs hold
\* the one accepted unit's work only
RejectedNoEffectWitness ==
    /\ pc = "kernel"
    /\ have_colors
    /\ count_atomic = 1
    /\ \E i \in RejectedUnits : upc[i] = "done"
    /\ \E i \in Claimed : upc[i] = "done" /\ SlotComplete(idx[i])
    /\ \E i \in DOMAIN upc \ RejectedUnits : upc[i] = "pending"
    /\ \A s \in 1..(n - 1) : SlotUntouched(s)

\* C14: no step changes the depth image, the color image, the intrinsics,
\* the extrinsics, depth_scale, depth_max or stride; a step of the parallel
\* stage leaves the locals of the function and the shapes of the outputs
\* alone and changes nothing but the counter, the stepping unit's own
\* position and idx, and rows of the outputs at claimed slots.
InputsReadOnly ==
    /\ [][/\ depth' = depth
          /\ image_colors' = image_colors
          /\ intrinsics' = intrinsics
          /\ extrinsics' = extrinsics
          /\ depth_scale' = depth_scale
          /\ depth_max' = depth_max
          /\ stride' = stride]_vars
    /\ [][KernelStep =>
            /\ UNCHANGED <<have_colors, rows_strided, cols_strided, n,
                           total_pts_count>>
            /\ points'.shape = points.shape /\ colors'.shape = colors.shape
            /\ Len(points'.data) = Len(points.data)
            /\ Len(colors'.data) = Len(colors.data)
            /\ \A k \in RowsChanged(points, points') \cup RowsChanged(colors, colors') :
                  k - 1 \in ClaimedSlots
            /\ ~have_colors => colors' = colors]_vars

\* the return of a call with colors in which four units read their depth
\* and color pixels and wrote their rows: the images are still images of
\* the calls drawn
InputsReadOnlyWitness ==
    /\ Returned
    /\ have_colors
    /\ n = 4 /\ total_pts_count = n
    /\ depth \in DepthImages([h |-> Height, w |-> Width, s |-> stride])
    /\ image_colors = ColorImage(Height, Width)

\* the call passes no color image
NoColorImage == NumElements(image_colors.shape) = 0

\* C15: in a call without a color image have_colors is false, no unit ever
\* stands at or can take the color copy (the only read of the color image and
\* the only write of a color row), and no step (allocation, unit step or
\* slice) changes the colors argument.
NoColorPath ==
    /\ []((NoColorImage /\ pc # "entry") =>
            /\ ~have_colors
            /\ \A i \in DOMAIN upc :
                  upc[i] # "color" /\ ~ENABLED WriteColor(i))
    /\ [][NoColorImage => colors' = colors]_vars

\* the return of a call without a color image whose colors argument held a
\* tensor on entry: two points stored against the scan order, the argument
\* as it was
NoColorPathWitness ==
    /\ Returned
    /\ NoColorImage
    /\ colors = StaleColors
    /\ Len(points.data) >= 2
    /\ OutOfScanOrder

\* the units that pass the filter and have not yet tested it
PendingAccepted ==
    { i \in DOMAIN upc \ RejectedUnits : upc[i] = "pending" }

\* unit i can be the next one to increment the counter
CanClaimNext(i) == ENABLED (Claim(i) /\ idx'[i] = count_atomic)

\* C16: whenever two accepted units have both still to claim, either of them
\* can be the next to increment and take the lower slot, so both orders of
\* their rows are reachable from one input; and the slot a unit gets is the
\* number of increments made before its own, whatever its place in the scan.
OrderNotFixed ==
    /\ [](pc = "kernel" =>
            \A i, j \in PendingAccepted :
                i < j => CanClaimNext(i) /\ CanClaimNext(j))
    /\ [][\A i \in DOMAIN idx :
            idx'[i] # idx[i] =>
                /\ idx'[i] = Cardinality(Claimed)
                /\ \A j \in Claimed : idx[j] < idx'[i]]_vars

\* a return in which the first pixel of the scan holds the last row and a
\* later pixel the first
OrderNotFixedWitness ==
    /\ Returned
    /\ total_pts_count >= 2
    /\ \E i, j \in Claimed :
          /\ i < j
          /\ \A k \in DOMAIN upc : i <= k
          /\ idx[i] = total_pts_count - 1
          /\ idx[j] = 0

\* a return of two or more rows stored in scan order
ScanOrderKept ==
    /\ Returned
    /\ total_pts_count >= 2
    /\ \A i, j \in Claimed : i < j => idx[i] < idx[j]

\* the <<y, x>> coordinate unit i reads
UnitCoord(i) == <<UnitY(i), UnitX(i)>>

\* C17: with stride >= 1 the launch runs the workload indices 0 .. n-1, each
\* maps to a pixel with 0 <= x < W and 0 <= y < H that is an element of the
\* depth image (and of the color image when there is one), and distinct
\* indices map to distinct pixels.
IndexMapping ==
    (pc # "entry" /\ stride >= 1) =>
        /\ DOMAIN upc = 0..(n - 1)
        /\ \A i \in 0..(n - 1) :
              /\ 0 <= UnitX(i) /\ UnitX(i) < Width
              /\ 0 <= UnitY(i) /\ UnitY(i) < Height
              /\ UnitCoord(i) \in DOMAIN depth.data
              /\ have_colors => UnitCoord(i) \in DOMAIN image_colors.data
        /\ \A i, j \in 0..(n - 1) : i # j => UnitCoord(i) # UnitCoord(j)

\* the return of a call with colors on a grid of at least two rows and two
\* columns whose last unit read the last pixel of the image and stored it
IndexMappingWitness ==
    /\ Returned
    /\ have_colors
    /\ rows_strided >= 2 /\ cols_strided >= 2
    /\ UnitCoord(n - 1) = <<Height - 1, Width - 1>>
    /\ n - 1 \in Claimed
    /\ Written(colors, idx[n - 1] + 1)

\* the stride exceeds a dimension of the depth image, or a dimension is zero
EmptyGrid == stride > Height \/ stride > Width \/ Height = 0 \/ Width = 0

\* C18: when the stride exceeds H or W, or a dimension of the depth image is
\* zero, rows * cols = n = 0, the launch has no unit (so no unit evaluates
\* workload_idx % cols_strided, in particular not with cols_strided = 0, and
\* none reads an image), the counter stays 0, only the return can follow the
\* launch, and the call returns points, and colors if a color image was
\* given, of shape 0 x 3.
EmptySamplingGrid ==
    /\ (pc # "entry" /\ cols_strided = 0) => DOMAIN upc = {}
    /\ (pc # "entry" /\ EmptyGrid) =>
          /\ rows_strided * cols_strided = 0
          /\ n = 0
          /\ DOMAIN upc = {}
          /\ ~ENABLED (\E i \in DOMAIN upc : UnitStep(i))
          /\ count_atomic = 0
          /\ pc = "kernel" =>
                /\ ENABLED Finalize
                /\ Len(points.data) = 0
                /\ have_colors => Len(colors.data) = 0
          /\ Returned =>
                /\ total_pts_count = 0
                /\ points = [shape |-> <<0, 3>>, data |-> <<>>]
                /\ ~NoColorImage => colors = [shape |-> <<0, 3>>, data |-> <<>>]

\* the return of a call on an image of valid pixels with colors, as many rows
\* as the stride and fewer columns: no point, no color
EmptySamplingGridWitness ==
    /\ Returned
    /\ Height >= stride /\ Width > 0 /\ stride > Width
    /\ AllValid
    /\ ~NoColorImage
    /\ cols_strided = 0 /\ rows_strided > 0
    /\ Len(points.data) = 0 /\ colors.shape = <<0, 3>>

\* the return of a call on a depth image without rows
ZeroDimensionReturn ==
    /\ Returned
    /\ Height = 0 /\ Width > 0
    /\ points.shape = <<0, 3>>

-----------------------------------------------------------------------------
(* Calls on images of 2^31 pixels and around, run a grid row at a time *)

\* a depth image all of whose pixels hold the same raw sample, kept as its
\* shape and that sample: its pixels are too many to list
ConstantImage(h, w, raw) == [shape |-> <<h, w>>, fill |-> raw]

\* 127, 128 and 129 rows of 2^24 pixels, stride 1: 2^31 - 2^24, 2^31 and
\* 2^31 + 2^24 units
LargeGrids == { [h |-> h, w |-> 16777216, s |-> 1] : h \in 127..129 }

InitLarge ==
    /\ \E g \in LargeGrids, raw \in 0..MaxRaw :
          /\ stride = g.s
          /\ depth = ConstantImage(g.h, g.w, raw)
    /\ image_colors = EmptyTensor
    /\ intrinsics = IdentityCamera.K
    /\ extrinsics = IdentityCamera.E
    /\ depth_scale = UnitScaleFilter[1]
    /\ depth_max = UnitScaleFilter[2]
    /\ colors \in {EmptyTensor, StaleColors}
    /\ TypeOfEntry

\* lines 59-87. The int64 n = rows_strided * cols_strided is kept as
\* <<q, r>>, standing for q * cols_strided + r with 0 <= r < cols_strided;
\* upc and idx have one entry per row of the grid; the contents of the
\* output buffers are not kept
SetupLarge ==
    /\ pc = "entry"
    /\ have_colors' = (NumElements(image_colors.shape) # 0)
    /\ rows_strided' = StridedExtent(GetShape(depth, 0), stride)
    /\ cols_strided' = StridedExtent(GetShape(depth, 1), stride)
    /\ n' = <<rows_strided', 0>>
    /\ points' = [shape |-> <<n', 3>>, data |-> <<>>]
    /\ colors' = IF have_colors'
                  THEN [shape |-> <<n', 3>>, data |-> <<>>]
                  ELSE colors
    /\ count_atomic' = 0
    /\ upc' = [r \in 0..(rows_strided' - 1) |-> "pending"]
    /\ idx' = [r \in 0..(rows_strided' - 1) |-> NoIdx]
    /\ pc' = "kernel"
    /\ UNCHANGED <<inputs, total_pts_count>>

\* the units of the grid rows are run in scan order
RowTurn(r) == \A q \in DOMAIN upc : q < r => upc[q] = "done"

\* lines 95-100 for the cols_strided units of grid row r, none of which
\* passes the filter
RejectRow(r) ==
    /\ pc = "kernel"
    /\ upc[r] = "pending"
    /\ RowTurn(r)
    /\ ~DepthValid(ScaledDepth(depth.fill, depth_scale), depth_max)
    /\ upc' = [upc EXCEPT ![r] = "done"]
    /\ UNCHANGED <<inputs, locals, points, colors, count_atomic,
                   total_pts_count, pc, idx>>

\* lines 95-110 for the cols_strided units of grid row r, all of which pass
\* the filter: cols_strided increments by 1, of which idx[r] keeps the value
\* the first one returned
RunRow(r) ==
    /\ pc = "kernel"
    /\ upc[r] = "pending"
    /\ RowTurn(r)
    /\ DepthValid(ScaledDepth(depth.fill, depth_scale), depth_max)
    /\ idx' = [idx EXCEPT ![r] = FetchedValue(count_atomic, 1)]
    /\ count_atomic' = AtomicAdd(count_atomic, cols_strided)
    /\ upc' = [upc EXCEPT ![r] = "done"]
    /\ UNCHANGED <<inputs, locals, points, colors, total_pts_count, pc>>

\* lines 123-131: int total_pts_count = (*count_ptr).load(), and the slices
FinalizeLarge ==
    /\ pc = "kernel"
    /\ AllUnitsDone
    /\ total_pts_count' = count_atomic
    /\ points' = [points EXCEPT !.shape = <<count_atomic, 3>>]
    /\ colors' = IF have_colors
                  THEN [colors EXCEPT !.shape = <<count_atomic, 3>>]
                  ELSE colors
    /\ pc' = "done"
    /\ UNCHANGED <<inputs, locals, count_atomic, upc, idx>>

NextLarge ==
    \/ SetupLarge
    \/ \E r \in DOMAIN upc : RejectRow(r)
    \/ \E r \in DOMAIN upc : RunRow(r)
    \/ FinalizeLarge

SpecLarge == InitLarge /\ [][NextLarge]_vars

\* the pixels of the constant image pass the filter
FillAccepted ==
    /\ depth.fill > 0
    /\ depth.fill * depth_scale[2] * depth_max[2] < depth_max[1] * depth_scale[1]

\* the int c holds the count of q full grid rows: c = q * cols_strided
HoldsRows(c, q) ==
    c >= 0 /\ c \div cols_strided = q /\ c % cols_strided = 0

\* the grid rows that have run
RowsDone == { r \in DOMAIN upc : upc[r] = "done" }

\* C19: the int counter never wraps: it holds the number of pixels accepted
\* so far, the idx returned to the first unit of a grid row of accepted pixels
\* is the number of pixels accepted before it, non-negative and below n, and
\* total_pts_count is the number of accepted pixels.
CounterNeverWraps ==
    (pc # "entry" /\ FillAccepted) =>
        /\ HoldsRows(count_atomic, Cardinality(RowsDone))
        /\ \A r \in RowsDone :
              /\ HoldsRows(idx[r], r)
              /\ idx[r] \div cols_strided < rows_strided
        /\ Returned => HoldsRows(total_pts_count, rows_strided)

====
